---- MODULE Spec2Model ----
(***************************************************************************)
(* QueueCTL: the jobs table of queuectl/storage.py and the workers of      *)
(* queuectl/worker.py that share it.                                       *)
(*                                                                         *)
(* Every Storage method opens its own connection.  Python's sqlite3 opens  *)
(* a transaction only in front of INSERT/UPDATE/DELETE, so a SELECT runs   *)
(* on its own and the statements after it, up to commit(), run as one      *)
(* transaction.  A method is therefore modelled as one step per            *)
(* transaction: acquire_job is SELECT / UPDATE / SELECT, fail_job and      *)
(* retry_dlq_job are SELECT / UPDATE, the other methods are one step.      *)
(* What a method keeps between its steps is the caller's local state.      *)
(*                                                                         *)
(* enqueue_job is one transaction, the aging UPDATE and the INSERT.  It is *)
(* modelled twice: as the single step other connections see (Enqueue), and *)
(* statement by statement (EnqueueBegin, EnqueueCommit) with its open      *)
(* transaction in tx, during which readers see the committed rows and      *)
(* every other writer waits for the write lock.                            *)
(*                                                                         *)
(* The columns command, timeout and updated_at are written and never read  *)
(* by the store or the worker loop; they are left out of the rows.  The    *)
(* value of locked_at is never read either: a row keeps whether it is      *)
(* NULL.                                                                   *)
(***************************************************************************)
EXTENDS Integers, FiniteSets, Sequences, TLC

\* ------------------------------------------------------------------ bounds
\* The clock runs over 0..MaxTime (seconds).
MaxTime == 2
\* enqueue is offered while every waiting job has waiting_time < MaxWaiting.
MaxWaiting == 2
\* The largest max_retries a producer passes.
MaxRetriesArg == 3
\* fail_job is followed while the attempts it reads are below MaxAttempts.
MaxAttempts == 4
\* The most workers the workers file tracks, and the largest --count.
MaxTracked == 4
MaxCount == 2

\* ------------------------------------------------------------------ values
JobIds == {"a", "b"}
Workers == {1, 2}
BackoffBases == {2}
Priorities == {1, 3}
\* priority = job_data.get('priority', 5)
DefaultPriority == 5

\* A key the caller left out of job_data, or an option left off the command line.
Omitted == -2
\* default_max_retries = int(row['value']) if row else 3
FallbackMaxRetries == 3
\* default_backoff_base = int(row['value']) if row else 2
FallbackBackoffBase == 2
\* @click.option('--max-retries', default=3)
CliMaxRetries == 3
\* @click.option('--backoff-base', default=2)
CliBackoffBase == 2
\* The values config set writes under max-retries and backoff-base.
ConfigMaxRetries == {1}
ConfigBackoffBases == {3}

\* SQL NULL in a numeric, timestamp or locked_by column.
NULL == -1
\* SQL NULL in a text column (output, error_message).
NoText == "<null>"

\* A timestamp whose value no operation reads (locked_at).
Stamp == 0

\* The execution_time a worker measures and reports (seconds, rounded).
Elapsed == 1

States == {"pending", "processing", "completed", "failed", "dead"}

VARIABLES
    jobs,       \* the jobs table: a function from the ids present to rows
    now,        \* the wall clock, datetime.utcnow()
    wpc,        \* each worker's position in Worker.run
    wjob,       \* each worker's job_id (acquire_job's local, then job['id'])
    wread,      \* what fail_job's SELECT returned to each worker
    retrying,   \* the ids a retry_dlq_job call has found dead and not yet updated
    config,     \* the config table: the value under each key, NULL when unset
    tx,         \* the enqueue_job transaction that is open on the store, or NoTx
    ret,        \* the last enqueue_job or retry_dlq_job call to return, and its value
    running,    \* each worker's Worker.running flag
    returncode, \* result.returncode of the command a worker has run and not
                \* yet reported on; NULL when there is none
    registry    \* workers.json: an entry per started worker, with whether
                \* tasklist still shows its process

\* What only the calls followed statement by statement change.
calls == <<config, tx, ret>>

\* What only signals, the outcome of a worker's command and the worker
\* manager change.
life == <<running, returncode, registry>>

vars == <<jobs, now, wpc, wjob, wread, retrying, config, tx, ret, running,
          returncode, registry>>

\* No call has returned yet.
NoRet == [call |-> "", value |-> FALSE]

\* No enqueue_job call is between its UPDATE and its commit or close.
NoTx == [id |-> "", cli |-> FALSE, given_max_retries |-> 0,
         given_backoff_base |-> 0, max_retries |-> 0, backoff_base |-> 0,
         priority |-> 0]

NoRead == [attempts |-> 0, max_retries |-> 0, backoff_base |-> 0]

\* ----------------------------------------------------------------- helpers
RECURSIVE Pow(_, _)
Pow(b, e) == IF e <= 0 THEN 1 ELSE b * Pow(b, e - 1)

Ids == DOMAIN jobs

\* The columns an INSERT leaves out.
SchemaDefaults ==
    [next_retry_at |-> NULL, locked_by |-> NULL, locked_at |-> NULL,
     output |-> NoText, error_message |-> NoText, execution_time |-> NULL]

\* The row enqueue_job inserts.
NewJob(max_retries, backoff_base, priority, t) ==
    [state |-> "pending", attempts |-> 0, max_retries |-> max_retries,
     backoff_base |-> backoff_base, priority |-> priority, waiting_time |-> 0,
     created_at |-> t,
     next_retry_at |-> SchemaDefaults.next_retry_at,
     locked_by |-> SchemaDefaults.locked_by,
     locked_at |-> SchemaDefaults.locked_at,
     output |-> SchemaDefaults.output,
     error_message |-> SchemaDefaults.error_message,
     execution_time |-> SchemaDefaults.execution_time]

\* The aging UPDATE without its WHERE clause.
WaitingAnyRow(r) == TRUE

\* WHERE state IN ('pending', 'failed') AND locked_by IS NULL
Waiting(r) == r.state \in {"pending", "failed"} /\ r.locked_by = NULL

\* The aging UPDATE setting waiting_time to 1 instead of adding 1.
AgingBumpSetsOne(r) ==
    IF Waiting(r) THEN [r EXCEPT !.waiting_time = 1] ELSE r

\* UPDATE jobs SET waiting_time = waiting_time + 1 WHERE ...
AgingBumpNone(r) == r
AgingBump(r) ==
    IF Waiting(r) THEN [r EXCEPT !.waiting_time = r.waiting_time + 1] ELSE r

\* WHERE (state = 'pending' OR (state = 'failed' AND next_retry_at <= ?))
\*   AND locked_by IS NULL
EligiblePendingOnly(r, t) == r.state = "pending" /\ r.locked_by = NULL
Eligible(r, t) ==
    /\ \/ r.state = "pending"
       \/ r.state = "failed" /\ r.next_retry_at # NULL /\ r.next_retry_at <= t
    /\ r.locked_by = NULL

EffectivePriority(r) == r.priority + r.waiting_time

\* ORDER BY (priority + waiting_time) DESC, created_at ASC: r sorts before s.
Before(r, s) ==
    \/ EffectivePriority(r) > EffectivePriority(s)
    \/ EffectivePriority(r) = EffectivePriority(s) /\ r.created_at < s.created_at

\* The ids acquire_job's SELECT ... LIMIT 1 may return at time t.
SelectCandidates(t) ==
    LET elig == {j \in Ids : Eligible(jobs[j], t)}
    IN  {j \in elig : \A k \in elig : ~Before(jobs[k], jobs[j])}

\* The UPDATE without its locked_by test.
LockGuardAnyRow(r) == TRUE

\* The UPDATE with its locked_by test inverted.
LockGuardInverted(r) == r.locked_by # NULL

\* WHERE id = ? AND locked_by IS NULL
LockGuard(r) == r.locked_by = NULL

\* The locking UPDATE, counting the acquisition as an attempt.
LockRowCountsAttempt(r, w) ==
    [r EXCEPT !.state = "processing", !.locked_by = w, !.locked_at = Stamp,
              !.attempts = r.attempts + 1]

\* SET state = 'processing', locked_by = ?, locked_at = ?
LockRow(r, w) ==
    [r EXCEPT !.state = "processing", !.locked_by = w, !.locked_at = Stamp]

\* complete_job's UPDATE without the lock columns.
CompleteRowKeepsLock(r, output, execution_time) ==
    [r EXCEPT !.state = "completed", !.output = output,
              !.execution_time = execution_time]

\* complete_job's UPDATE
CompleteRowAddsTime(r, output, execution_time) ==
    [r EXCEPT !.state = "completed", !.output = output,
              !.execution_time =
                  (IF r.execution_time = NULL THEN 0 ELSE r.execution_time)
                      + execution_time,
              !.locked_by = NULL, !.locked_at = NULL]
CompleteRow(r, output, execution_time) ==
    [r EXCEPT !.state = "completed", !.output = output,
              !.execution_time = execution_time, !.locked_by = NULL,
              !.locked_at = NULL]

\* fail_job: attempts = job['attempts'] + 1
NextAttempts(attempts) == attempts + 1

\* fail_job: if attempts >= max_retries (move to DLQ)
Exhausted(attempts, max_retries) == attempts >= max_retries

\* The delay computed from the attempts before the increment.
DelayPreIncrement(backoff_base, attempts) == Pow(backoff_base, attempts - 1)

\* fail_job: delay = backoff_base ** attempts
Delay(backoff_base, attempts) == Pow(backoff_base, attempts)

\* fail_job's UPDATE ... SET state = 'dead'
DeadRow(r, attempts, error_message, execution_time) ==
    [r EXCEPT !.state = "dead", !.attempts = attempts,
              !.error_message = error_message,
              !.execution_time = execution_time, !.locked_by = NULL,
              !.locked_at = NULL, !.next_retry_at = NULL]

\* fail_job's UPDATE ... SET state = 'failed'
FailedRowNoRetryTime(r, attempts, error_message, execution_time, next_retry) ==
    [r EXCEPT !.state = "failed", !.attempts = attempts,
              !.error_message = error_message,
              !.execution_time = execution_time, !.locked_by = NULL,
              !.locked_at = NULL]
FailedRow(r, attempts, error_message, execution_time, next_retry) ==
    [r EXCEPT !.state = "failed", !.attempts = attempts,
              !.error_message = error_message,
              !.execution_time = execution_time, !.locked_by = NULL,
              !.locked_at = NULL, !.next_retry_at = next_retry]

\* retry_dlq_job's UPDATE
RetryRowKeepsAttempts(r) ==
    [r EXCEPT !.state = "pending", !.error_message = NoText,
              !.next_retry_at = NULL, !.locked_by = NULL, !.locked_at = NULL]
RetryRow(r) ==
    [r EXCEPT !.state = "pending", !.attempts = 0, !.error_message = NoText,
              !.next_retry_at = NULL, !.locked_by = NULL, !.locked_at = NULL]

\* The rows after retry_dlq_job's UPDATE ... WHERE id = ?.
RetriedWithAging(table, id) ==
    [j \in DOMAIN table |->
        IF j = id THEN RetryRow(table[j]) ELSE AgingBump(table[j])]
Retried(table, id) == [table EXCEPT ![id] = RetryRow(@)]

\* ------------------------------------------------------------------- state
Init ==
    /\ jobs = << >>
    /\ now = 0
    /\ wpc = [w \in Workers |-> "idle"]
    /\ wjob = [w \in Workers |-> ""]
    /\ wread = [w \in Workers |-> NoRead]
    /\ retrying = {}
    /\ config = [max_retries |-> NULL, backoff_base |-> NULL]
    /\ tx = NoTx
    /\ ret = NoRet
    /\ running = [w \in Workers |-> TRUE]
    /\ returncode = [w \in Workers |-> NULL]
    /\ registry = << >>

\* Time passes.
Tick ==
    /\ now < MaxTime
    /\ now' = now + 1
    /\ UNCHANGED <<jobs, wpc, wjob, wread, retrying, calls, life>>

\* Time passes while a failed job waits for its retry.
TickToRetry ==
    /\ \E j \in Ids : jobs[j].state = "failed" /\ jobs[j].next_retry_at > now
    /\ now' = now + 1
    /\ UNCHANGED <<jobs, wpc, wjob, wread, retrying, calls, life>>

\* ---------------------------------------------------------------- producer
\* Storage.enqueue_job: the aging bump and the INSERT in one transaction; an
\* INSERT of an id that exists raises, and close() rolls the bump back.
Enqueue(id, max_retries, backoff_base, priority) ==
    /\ tx = NoTx
    /\ \A j \in Ids : Waiting(jobs[j]) => jobs[j].waiting_time < MaxWaiting
    /\ jobs' = IF id \in Ids
                 THEN jobs
                 ELSE [j \in Ids \cup {id} |->
                          IF j = id
                            THEN NewJob(max_retries, backoff_base, priority, now)
                            ELSE AgingBump(jobs[j])]
    /\ UNCHANGED <<now, wpc, wjob, wread, retrying, calls, life>>

\* job_data.get(key, default); a click option declared with default=default.
Get(arg, default) == IF arg = Omitted THEN default ELSE arg

\* default_max_retries: the value under max-retries if the key is set, else 3.
DefaultMaxRetries(cfg) ==
    IF cfg.max_retries # NULL THEN cfg.max_retries ELSE FallbackMaxRetries

\* default_backoff_base: the value under backoff-base if the key is set, else 2.
DefaultBackoffBase(cfg) ==
    IF cfg.backoff_base # NULL THEN cfg.backoff_base ELSE FallbackBackoffBase

\* The INSERT finds a row with the same id (the primary key of jobs).
DuplicateId(id, table) == id \in DOMAIN table

\* The rows other connections read while the aging UPDATE of an open
\* transaction is uncommitted: the rows as they were.
OpenBumpShown(table) == [j \in DOMAIN table |-> AgingBump(table[j])]
OpenBump(table) == table

\* The rows after the INSERT raised and close() ended the transaction without
\* a commit: the aging UPDATE is rolled back.
RolledBackKeepsBump(table) == [j \in DOMAIN table |-> AgingBump(table[j])]
RolledBack(table) == table

\* The rows after the transaction committed the aging UPDATE and the INSERT.
CommittedBumpsEveryRow(table, id, row) ==
    [j \in DOMAIN table \cup {id} |->
        IF j = id THEN row
                  ELSE [table[j] EXCEPT !.waiting_time = @ + 1]]
Committed(table, id, row) ==
    [j \in DOMAIN table \cup {id} |->
        IF j = id THEN row ELSE AgingBump(table[j])]

\* Storage.set_config: INSERT OR REPLACE of one key.
ConfigSet(key, value) ==
    /\ tx = NoTx
    /\ config[key] # value
    /\ config' = [config EXCEPT ![key] = value]
    /\ UNCHANGED <<jobs, now, wpc, wjob, wread, retrying, tx, ret, life>>

\* Storage.enqueue_job up to its aging UPDATE: the two config SELECTs, the
\* UPDATE that opens the transaction, and the defaults for the keys job_data
\* lacks.  The arguments are the keys of job_data, Omitted for a missing one;
\* cli and the given_ values are what the producer started from.
EnqueueBegin(id, max_retries, backoff_base, priority, cli, given) ==
    /\ tx = NoTx
    /\ \A j \in Ids : Waiting(jobs[j]) => jobs[j].waiting_time < MaxWaiting
    /\ tx' = [id |-> id, cli |-> cli,
              given_max_retries |-> given.max_retries,
              given_backoff_base |-> given.backoff_base,
              max_retries |-> Get(max_retries, DefaultMaxRetries(config)),
              backoff_base |-> Get(backoff_base, DefaultBackoffBase(config)),
              priority |-> Get(priority, DefaultPriority)]
    /\ jobs' = OpenBump(jobs)
    /\ UNCHANGED <<now, wpc, wjob, wread, retrying, config, ret, life>>

\* Storage.enqueue_job from its INSERT on: commit and return True, or the
\* IntegrityError of a duplicate id, close() without commit and return False.
EnqueueCommit ==
    /\ tx # NoTx
    /\ IF DuplicateId(tx.id, jobs)
         THEN /\ jobs' = RolledBack(jobs)
              /\ ret' = [call |-> "enqueue_job", value |-> FALSE]
         ELSE /\ jobs' = Committed(jobs, tx.id,
                            NewJob(tx.max_retries, tx.backoff_base,
                                   tx.priority, now))
              /\ ret' = [call |-> "enqueue_job", value |-> TRUE]
    /\ tx' = NoTx
    /\ UNCHANGED <<now, wpc, wjob, wread, retrying, config, life>>

\* Storage.enqueue_job called with a job_data that has the keys given.
StoreEnqueue(id, given) ==
    EnqueueBegin(id, given.max_retries, given.backoff_base, Omitted, FALSE, given)

\* queuectl.py enqueue: click fills every option the command line omits, and
\* job_data carries all of them.
CliEnqueue(id, given) ==
    EnqueueBegin(id, Get(given.max_retries, CliMaxRetries),
                 Get(given.backoff_base, CliBackoffBase),
                 Get(Omitted, DefaultPriority), TRUE, given)

\* ------------------------------------------------------------------ worker
\* acquire_job, first statement: read the clock, SELECT the first-ranked
\* eligible row; None when there is none (Worker.run then sleeps and polls).
AcquireSelectAnyFlag(w) ==
    /\ wpc[w] = "idle"
    /\ \E j \in SelectCandidates(now) :
          /\ wpc' = [wpc EXCEPT ![w] = "selected"]
          /\ wjob' = [wjob EXCEPT ![w] = j]
    /\ UNCHANGED <<jobs, now, wread, retrying, calls, life>>
AcquireSelect(w) ==
    /\ wpc[w] = "idle"
    /\ running[w]
    /\ \E j \in SelectCandidates(now) :
          /\ wpc' = [wpc EXCEPT ![w] = "selected"]
          /\ wjob' = [wjob EXCEPT ![w] = j]
    /\ UNCHANGED <<jobs, now, wread, retrying, calls, life>>

\* acquire_job, second statement: the conditional UPDATE and commit; rowcount 0
\* returns None.
AcquireLock(w) ==
    /\ wpc[w] = "selected"
    /\ tx = NoTx
    /\ IF wjob[w] \in Ids /\ LockGuard(jobs[wjob[w]])
         THEN /\ jobs' = [jobs EXCEPT ![wjob[w]] = LockRow(@, w)]
              /\ wpc' = [wpc EXCEPT ![w] = "locked"]
              /\ UNCHANGED wjob
         ELSE /\ jobs' = jobs
              /\ wpc' = [wpc EXCEPT ![w] = "idle"]
              /\ wjob' = [wjob EXCEPT ![w] = ""]
    /\ UNCHANGED <<now, wread, retrying, calls, life>>

\* acquire_job, third statement: fetch the row again and return it, or None
\* when it is gone; Worker.run executes the job it is given.
AcquireFetch(w) ==
    /\ wpc[w] = "locked"
    /\ IF wjob[w] \in Ids
         THEN /\ wpc' = [wpc EXCEPT ![w] = "executing"]
              /\ UNCHANGED wjob
         ELSE /\ wpc' = [wpc EXCEPT ![w] = "idle"]
              /\ wjob' = [wjob EXCEPT ![w] = ""]
    /\ UNCHANGED <<jobs, now, wread, retrying, calls, life>>

\* _execute_job, exit code 0: complete_job's single UPDATE ... WHERE id = ?.
Complete(w) ==
    /\ wpc[w] = "executing"
    /\ tx = NoTx
    /\ jobs' = IF wjob[w] \in Ids
                 THEN [jobs EXCEPT ![wjob[w]] =
                          CompleteRow(@, "out", Elapsed)]
                 ELSE jobs
    /\ wpc' = [wpc EXCEPT ![w] = "idle"]
    /\ wjob' = [wjob EXCEPT ![w] = ""]
    /\ UNCHANGED <<now, wread, retrying, calls, life>>

\* _execute_job, exit code 0, and complete_job raises (the store stays locked
\* past the busy timeout, the disk is full): close() leaves the row as it was
\* and the worker enters its except Exception handler.
CompleteRaises(w) ==
    /\ wpc[w] = "executing"
    /\ wpc' = [wpc EXCEPT ![w] = "raised"]
    /\ returncode' = [returncode EXCEPT ![w] = 0]
    /\ UNCHANGED <<jobs, now, wjob, wread, retrying, calls, running, registry>>

\* _execute_job, non-zero exit or timeout, or the except Exception handler:
\* fail_job's SELECT; a missing row returns at once.
FailRead(w) ==
    /\ wpc[w] \in {"executing", "raised"}
    /\ IF wjob[w] \in Ids
         THEN /\ jobs[wjob[w]].attempts < MaxAttempts
              /\ wread' = [wread EXCEPT ![w] =
                    [attempts |-> jobs[wjob[w]].attempts,
                     max_retries |-> jobs[wjob[w]].max_retries,
                     backoff_base |-> jobs[wjob[w]].backoff_base]]
              /\ wpc' = [wpc EXCEPT ![w] = "failing"]
              /\ returncode' = [returncode EXCEPT ![w] =
                    IF wpc[w] = "executing" THEN 1 ELSE @]
              /\ UNCHANGED wjob
         ELSE /\ wpc' = [wpc EXCEPT ![w] = "idle"]
              /\ wjob' = [wjob EXCEPT ![w] = ""]
              /\ returncode' = [returncode EXCEPT ![w] = NULL]
              /\ UNCHANGED wread
    /\ UNCHANGED <<jobs, now, retrying, calls, running, registry>>

\* The row fail_job writes over r, from what its SELECT read, at time t.
FailUpdate(r, read, elapsed, t) ==
    LET attempts == NextAttempts(read.attempts)
    IN  IF Exhausted(attempts, read.max_retries)
          THEN DeadRow(r, attempts, "err", elapsed)
          ELSE FailedRow(r, attempts, "err", elapsed,
                         t + Delay(read.backoff_base, attempts))

\* fail_job's UPDATE ... WHERE id = ? and commit.
FailWrite(w) ==
    /\ wpc[w] = "failing"
    /\ tx = NoTx
    /\ jobs' = IF wjob[w] \in Ids
                 THEN [jobs EXCEPT ![wjob[w]] =
                          FailUpdate(@, wread[w], Elapsed, now)]
                 ELSE jobs
    /\ wpc' = [wpc EXCEPT ![w] = "idle"]
    /\ wjob' = [wjob EXCEPT ![w] = ""]
    /\ wread' = [wread EXCEPT ![w] = NoRead]
    /\ returncode' = [returncode EXCEPT ![w] = NULL]
    /\ UNCHANGED <<now, retrying, calls, running, registry>>

\* Worker._signal_handler, on SIGINT or SIGTERM: clear the flag.
Signal(w) ==
    /\ wpc[w] \notin {"stopped", "killed"}
    /\ running[w]
    /\ running' = [running EXCEPT ![w] = FALSE]
    /\ UNCHANGED <<jobs, now, wpc, wjob, wread, retrying, calls, returncode, registry>>

\* Worker.run: while self.running is false at the top of the loop; the worker
\* prints WORKER STOPPED and returns.
Exit(w) ==
    /\ wpc[w] = "idle"
    /\ ~running[w]
    /\ wpc' = [wpc EXCEPT ![w] = "stopped"]
    /\ UNCHANGED <<jobs, now, wjob, wread, retrying, calls, life>>

\* The worker's process is killed where it stands (taskkill /F, kill -9, a
\* crash): no handler runs, and what it held in memory is gone with it.
Kill(w) ==
    /\ wpc[w] \notin {"stopped", "killed"}
    /\ wpc' = [wpc EXCEPT ![w] = "killed"]
    /\ UNCHANGED <<jobs, now, wjob, wread, retrying, calls, life>>

\* WorkerManager.stop_workers: taskkill /PID pid /F for every worker of the
\* workers file, then the file is cleared.
StopWorkers ==
    /\ \E w \in Workers : wpc[w] \notin {"stopped", "killed"}
    /\ wpc' = [w \in Workers |->
                 IF wpc[w] = "stopped" THEN "stopped" ELSE "killed"]
    /\ registry' = << >>
    /\ UNCHANGED <<jobs, now, wjob, wread, retrying, calls, running,
                   returncode>>

\* cleanup_dead_workers: the entries whose process is still running.
ActiveWorkers(workers) == SelectSeq(workers, LAMBDA e : e.alive)

\* The loop of start_workers from its turn i on: worker_id is
\* "worker-" + (len(workers) + i + 1), and workers grows at every turn.
RECURSIVE Started(_, _, _)
Started(workers, i, count) ==
    IF i >= count
      THEN workers
      ELSE Started(Append(workers, [worker_id |-> Len(workers) + i + 1,
                                    alive |-> TRUE]),
                   i + 1, count)

\* WorkerManager.start_workers(count): clean up, start count processes, save.
StartWorkers(count) ==
    /\ Len(ActiveWorkers(registry)) + count <= MaxTracked
    /\ registry' = Started(ActiveWorkers(registry), 0, count)
    /\ UNCHANGED <<jobs, now, wpc, wjob, wread, retrying, calls, running,
                   returncode>>

\* The process of the k-th entry of the workers file ends; the file stays.
WorkerDies(k) ==
    /\ k \in DOMAIN registry
    /\ registry[k].alive
    /\ registry' = [registry EXCEPT ![k].alive = FALSE]
    /\ UNCHANGED <<jobs, now, wpc, wjob, wread, retrying, calls, running,
                   returncode>>

\* ------------------------------------------------------------------- admin
\* retry_dlq_job's SELECT state: a missing or non-dead job returns False and
\* changes nothing; a dead one goes on to the UPDATE.  One call per id is
\* between its two statements at a time.
RetryDlqRead(id) ==
    /\ id \in Ids
    /\ jobs[id].state = "dead"
    /\ id \notin retrying
    /\ retrying' = retrying \cup {id}
    /\ UNCHANGED <<jobs, now, wpc, wjob, wread, calls, life>>

\* retry_dlq_job's SELECT state finds no row, or a row that is not dead:
\* return False.
RetryDlqRefuse(id) ==
    /\ id \notin retrying
    /\ IF id \in Ids THEN jobs[id].state # "dead" ELSE TRUE
    /\ ret' = [call |-> "retry_dlq_job", value |-> FALSE]
    /\ UNCHANGED <<jobs, now, wpc, wjob, wread, retrying, config, tx, life>>

\* retry_dlq_job's UPDATE ... WHERE id = ?, commit, and return True.
RetryDlqWrite(id) ==
    /\ id \in retrying
    /\ tx = NoTx
    /\ retrying' = retrying \ {id}
    /\ jobs' = IF id \in Ids THEN Retried(jobs, id) ELSE jobs
    /\ ret' = [call |-> "retry_dlq_job", value |-> TRUE]
    /\ UNCHANGED <<now, wpc, wjob, wread, config, tx, life>>

\* Storage.delete_job
Delete(id) ==
    /\ id \in Ids
    /\ tx = NoTx
    /\ jobs' = [j \in Ids \ {id} |-> jobs[j]]
    /\ UNCHANGED <<now, wpc, wjob, wread, retrying, calls, life>>

\* Storage.clear_all_jobs
ClearAll ==
    /\ Ids # {}
    /\ tx = NoTx
    /\ jobs' = << >>
    /\ UNCHANGED <<now, wpc, wjob, wread, retrying, calls, life>>

\* ---------------------------------------------------------- specifications
\* A producer's enqueue with max_retries drawn from R and priority from P.
Produce(R, P) ==
    \E id \in JobIds, mr \in R, bb \in BackoffBases, pr \in P :
        Enqueue(id, mr, bb, pr)

\* One step of the run loop of a worker of W.
Work(W) ==
    \E w \in W :
        \/ AcquireSelect(w)
        \/ AcquireLock(w)
        \/ AcquireFetch(w)
        \/ Complete(w)
        \/ FailRead(w)
        \/ FailWrite(w)

\* The administrative commands dlq retry, dequeue and clear.
Administer ==
    \/ \E id \in JobIds : RetryDlqRead(id)
    \/ \E id \in JobIds : RetryDlqWrite(id)
    \/ \E id \in JobIds : Delete(id)
    \/ ClearAll

\* Every operation on the store: producers that leave the priority to its
\* default, one running worker, and the administrative commands.
Next ==
    \/ Tick
    \/ Produce({0, 1, MaxRetriesArg}, {DefaultPriority})
    \/ Work({1})
    \/ Administer

Spec == Init /\ [][Next]_vars

\* Competing workers: producers that choose priorities, and every worker.
NextWorkers ==
    \/ Tick
    \/ Produce({1, MaxRetriesArg}, Priorities)
    \/ Work(Workers)

SpecWorkers == Init /\ [][NextWorkers]_vars

\* What a producer gives for max_retries and backoff_base: nothing, or both.
EnqueueArgs ==
    {[max_retries |-> Omitted, backoff_base |-> Omitted],
     [max_retries |-> 1, backoff_base |-> 2]}

\* The calls statement by statement: enqueue through the store, one worker,
\* dlq retry and dequeue.
NextCalls ==
    \/ \E id \in JobIds, given \in EnqueueArgs : StoreEnqueue(id, given)
    \/ EnqueueCommit
    \/ Work({1})
    \/ \E id \in JobIds : RetryDlqRead(id)
    \/ \E id \in JobIds : RetryDlqRefuse(id)
    \/ \E id \in JobIds : RetryDlqWrite(id)
    \/ \E id \in JobIds : Delete(id)

SpecCalls == Init /\ [][NextCalls]_vars

\* Producers and the configuration: config set, enqueue through the store and
\* through the command line, dequeue.
NextConfig ==
    \/ \E v \in ConfigMaxRetries : ConfigSet("max_retries", v)
    \/ \E v \in ConfigBackoffBases : ConfigSet("backoff_base", v)
    \/ \E id \in JobIds, given \in EnqueueArgs : StoreEnqueue(id, given)
    \/ \E id \in JobIds, given \in EnqueueArgs : CliEnqueue(id, given)
    \/ EnqueueCommit
    \/ \E id \in JobIds : Delete(id)

SpecConfig == Init /\ [][NextConfig]_vars

\* Competing workers while ids are dequeued and enqueued again.
NextReuse ==
    \/ Produce({1, MaxRetriesArg}, {DefaultPriority})
    \/ Work(Workers)
    \/ \E id \in JobIds : Delete(id)

SpecReuse == Init /\ [][NextReuse]_vars

\* Competing workers while dead jobs are retried from the DLQ.
NextRetry ==
    \/ Produce({1}, {DefaultPriority})
    \/ Work(Workers)
    \/ \E id \in JobIds : RetryDlqRead(id)
    \/ \E id \in JobIds : RetryDlqRefuse(id)
    \/ \E id \in JobIds : RetryDlqWrite(id)

SpecRetry == Init /\ [][NextRetry]_vars

\* dequeue of a job that is neither waiting for its first run nor running.
DeleteFinished(id) ==
    /\ Delete(id)
    /\ jobs[id].state \in {"completed", "failed", "dead"}

\* A queue that is fed for ever: producers that choose priorities, one worker
\* that keeps running its loop, and finished jobs dequeued so that their ids
\* come back.
NextAging ==
    \/ Produce({1}, Priorities)
    \/ Work({1})
    \/ \E id \in JobIds : DeleteFinished(id)

SpecAging == Init /\ [][NextAging]_vars /\ WF_vars(Work({1}))

\* A queue that drains: the ids run out, so enqueues stop; workers that are
\* never killed keep running and time passes whenever a retry waits for it.
NextDrain ==
    \/ TickToRetry
    \/ Produce({1, 2}, {DefaultPriority})
    \/ Work(Workers)

SpecDrain ==
    /\ Init /\ [][NextDrain]_vars
    /\ \A w \in Workers : WF_vars(Work({w}))
    /\ WF_vars(TickToRetry)

\* Workers that are sent shutdown signals: each runs its loop until it finds
\* its flag cleared.
NextSignal ==
    \/ TickToRetry
    \/ Produce({1, 2}, {DefaultPriority})
    \/ Work(Workers)
    \/ \E w \in Workers : Signal(w)
    \/ \E w \in Workers : Exit(w)

SpecSignal ==
    /\ Init /\ [][NextSignal]_vars
    /\ \A w \in Workers : WF_vars(Work({w}) \/ Exit(w))

\* Workers started in the background and the worker stop command.
NextStop ==
    \/ TickToRetry
    \/ Produce({1, 2}, {DefaultPriority})
    \/ Work(Workers)
    \/ StopWorkers

SpecStop == Init /\ [][NextStop]_vars

\* Workers that can be killed at any point, and the operator's dequeue and
\* clear.
NextKill ==
    \/ Produce({1}, {DefaultPriority})
    \/ Work(Workers)
    \/ \E w \in Workers : Kill(w)
    \/ \E id \in JobIds : Delete(id)
    \/ ClearAll

SpecKill == Init /\ [][NextKill]_vars

\* A worker on a store whose calls can raise.
NextRaise ==
    \/ TickToRetry
    \/ Produce({1, 2}, {DefaultPriority})
    \/ Work({1})
    \/ CompleteRaises(1)

SpecRaise == Init /\ [][NextRaise]_vars

\* What enqueue is given on the command line when --backoff-base is set:
\* click takes any integer, 1 included.
BaseArgs ==
    {[max_retries |-> MaxRetriesArg, backoff_base |-> b] : b \in {1, 2}}

\* Producers that choose the backoff base, and a worker whose jobs fail.
NextBases ==
    \/ TickToRetry
    \/ \E id \in JobIds, given \in BaseArgs : CliEnqueue(id, given)
    \/ EnqueueCommit
    \/ Work({1})

SpecBases == Init /\ [][NextBases]_vars

\* The worker manager: worker start --count n, and workers that die.
NextRegistry ==
    \/ \E count \in 1..MaxCount : StartWorkers(count)
    \/ \E k \in 1..MaxTracked : WorkerDies(k)

SpecRegistry == Init /\ [][NextRegistry]_vars

\* ------------------------------------------------------------------ claims
\* Worker w has locked job j, or has been handed it, and has not yet reported
\* its outcome.
Holds(w, j) == wpc[w] \in {"locked", "executing", "failing"} /\ wjob[w] = j

\* The step is worker w's locking UPDATE of acquire_job.
LockStep(w) == wpc[w] = "selected" /\ wpc'[w] # "selected"

\* The step is worker w's locking UPDATE, and it took the row.
LockTaken(w) == wpc[w] = "selected" /\ wpc'[w] = "locked"

\* C1: under every interleaving of the workers' acquire, complete and fail
\* calls, a job is held by at most one worker at a time, and while a worker
\* holds it the row is in processing under that worker's lock.
C1_SingleHolder ==
    \A w \in Workers : \A j \in JobIds :
        Holds(w, j) =>
            /\ j \in Ids
            /\ jobs[j].state = "processing"
            /\ jobs[j].locked_by = w
            /\ \A v \in Workers \ {w} : ~Holds(v, j)

\* C1 witness: two workers selected the same job, one of them holds it and
\* the other is about to run its locking UPDATE.
C1_Witness ==
    \E w, v \in Workers : \E j \in JobIds :
        /\ w # v
        /\ Holds(w, j)
        /\ wpc[v] = "selected"
        /\ wjob[v] = j

\* C2: acquire never changes a job whose state is completed or dead, however
\* its SELECT and its UPDATE interleave with other workers' calls.
C2_AcquireLeavesTerminal ==
    [][\A w \in Workers : \A j \in Ids :
          (LockStep(w) /\ jobs[j].state \in {"completed", "dead"})
              => (j \in DOMAIN jobs' /\ jobs'[j] = jobs[j])]_vars

\* C3: whenever acquire locks a job, at that moment no other eligible job
\* sorts before it (larger priority + waiting_time, or equal and created
\* earlier).
C3_LockedJobRanksFirst ==
    [][\A w \in Workers :
          LockTaken(w) =>
              \A k \in Ids \ {wjob[w]} :
                  Eligible(jobs[k], now) => ~Before(jobs[k], jobs[wjob[w]])]_vars

\* C4: a job moves to processing only if, at the moment it is locked, it is
\* unlocked and pending, or failed with next_retry_at <= now.
C4_LockedJobIsEligible ==
    [][\A j \in Ids :
          (jobs[j].state # "processing" /\ j \in DOMAIN jobs'
             /\ jobs'[j].state = "processing")
              => Eligible(jobs[j], now)]_vars

\* C5: in every reachable state a job is in processing if and only if its
\* locked_by and locked_at are both non-null.
C5_ProcessingIffLocked ==
    \A j \in Ids :
        jobs[j].state = "processing"
            <=> (jobs[j].locked_by # NULL /\ jobs[j].locked_at # NULL)

\* C5 witness: one job is in processing under a lock while another has been
\* released by complete or fail.
C5_Witness ==
    \E j, k \in Ids :
        /\ jobs[j].state = "processing"
        /\ jobs[j].locked_by \in Workers
        /\ jobs[k].state \in {"completed", "failed", "dead"}
        /\ jobs[k].locked_by = NULL

\* C6: a job is in state dead only if its attempts counter equals its
\* max_retries.
C6_DeadOnlyAtMaxRetries ==
    \A j \in Ids : jobs[j].state = "dead" => jobs[j].attempts = jobs[j].max_retries

\* C7: in every reachable state every job satisfies attempts <= max_retries.
C7_AttemptsWithinMaxRetries ==
    \A j \in Ids : jobs[j].attempts <= jobs[j].max_retries

\* The step is worker w's fail_job UPDATE, and it leaves the row in failed.
FailedStep(w) ==
    /\ wpc[w] = "failing"
    /\ wpc'[w] = "idle"
    /\ wjob[w] \in DOMAIN jobs'
    /\ jobs'[wjob[w]].state = "failed"

\* C8: when fail leaves a job in failed with attempts = k, then k is one more
\* than the attempts fail read, k < max_retries, and next_retry_at is the time
\* of the failure plus backoff_base^k (max_retries and backoff_base as fail
\* read them from the job).
C8_BackoffIsBasePowerAttempts ==
    [][\A w \in Workers :
          FailedStep(w) =>
              LET k == jobs'[wjob[w]].attempts
              IN  /\ k = wread[w].attempts + 1
                  /\ k < wread[w].max_retries
                  /\ jobs'[wjob[w]].next_retry_at
                        = now + Pow(wread[w].backoff_base, k)]_vars

\* C8 witness: a job has just failed for the second time and waits
\* backoff_base^2 seconds.
C8_Witness ==
    \E j \in Ids :
        /\ jobs[j].state = "failed"
        /\ jobs[j].attempts = 2
        /\ jobs[j].next_retry_at = now + Pow(jobs[j].backoff_base, 2)

\* The step is a successful enqueue of a new id.
EnqueueStep == \E id \in DOMAIN jobs' : id \notin Ids /\ Ids \subseteq DOMAIN jobs'

\* C9: a successful enqueue of a new job adds exactly 1 to the waiting_time of
\* every job that is pending or failed and unlocked, and no step decreases the
\* waiting_time of such a job.
C9_AgingOnEnqueue ==
    [][\A j \in Ids :
          (Waiting(jobs[j]) /\ j \in DOMAIN jobs')
              => /\ jobs'[j].waiting_time >= jobs[j].waiting_time
                 /\ EnqueueStep
                      => jobs'[j].waiting_time = jobs[j].waiting_time + 1]_vars

\* C9 witness: a job is still waiting after two further jobs were enqueued.
C9_Witness ==
    \E j \in Ids : Waiting(jobs[j]) /\ jobs[j].waiting_time = 2

\* C10: no step changes the waiting_time of a job that is in processing,
\* completed or dead.
C10_NoAgingUnlessWaiting ==
    [][\A j \in Ids :
          (jobs[j].state \in {"processing", "completed", "dead"}
             /\ j \in DOMAIN jobs')
              => jobs'[j].waiting_time = jobs[j].waiting_time]_vars

\* C10 witness: a job in processing, completed or dead was passed over by the
\* aging bump of a later enqueue (the other row was created after it, and its
\* own waiting_time is still 0).
C10_Witness ==
    \E j, k \in Ids :
        /\ jobs[j].state \in {"processing", "completed", "dead"}
        /\ jobs[j].waiting_time = 0
        /\ jobs[j].created_at < jobs[k].created_at

\* The step is enqueue_job's aging UPDATE, opening its transaction.
BeginStep == tx = NoTx /\ tx' # NoTx

\* The step is enqueue_job's INSERT, ending its transaction.
CommitStep == tx # NoTx /\ tx' = NoTx

\* C11: an enqueue whose id already exists returns False and leaves the store
\* unchanged: neither its aging UPDATE nor its INSERT changes any job, and
\* the config table is as it was.
C11_DuplicateEnqueueChangesNothing ==
    [][/\ (BeginStep /\ tx'.id \in Ids) => (jobs' = jobs /\ config' = config)
       /\ (CommitStep /\ tx.id \in Ids) =>
             /\ jobs' = jobs
             /\ config' = config
             /\ ret' = [call |-> "enqueue_job", value |-> FALSE]]_vars

\* C11 witness: an enqueue of an id that exists has returned False while a
\* job was waiting for its turn.
C11_Witness ==
    /\ ret = [call |-> "enqueue_job", value |-> FALSE]
    /\ \E j \in Ids : Waiting(jobs[j])

\* C12: the aging bump and the INSERT of one enqueue reach the rows acquire
\* reads in one step: no step adds a job without bumping every waiting job,
\* and no step changes a waiting_time without adding a job.
C12_BumpAndInsertTogether ==
    [][LET added == DOMAIN jobs' \ Ids
           bumped == {j \in Ids \cap DOMAIN jobs' :
                         jobs'[j].waiting_time # jobs[j].waiting_time}
       IN  /\ added # {} =>
                 \A j \in Ids :
                     Waiting(jobs[j]) =>
                         /\ j \in DOMAIN jobs'
                         /\ jobs'[j].waiting_time = jobs[j].waiting_time + 1
           /\ bumped # {} => added # {}]_vars

\* C12 witness: while an enqueue is between its aging UPDATE and its commit
\* and a job is waiting, a worker's acquire has read the rows.
C12_Witness ==
    /\ tx # NoTx
    /\ tx.id \notin Ids
    /\ \E w \in Workers : wpc[w] = "selected" /\ wjob[w] \in Ids
                             /\ Waiting(jobs[wjob[w]])

\* The step is worker w's complete_job UPDATE or fail_job UPDATE.
ReportStep(w) == wpc[w] \in {"executing", "failing"} /\ wpc'[w] = "idle"

\* C13: complete and fail never change a job that is in state completed or
\* dead, under any interleaving of the workers with dequeue and enqueue.
C13_ReportLeavesTerminal ==
    [][\A w \in Workers : \A j \in Ids :
          (ReportStep(w) /\ jobs[j].state \in {"completed", "dead"})
              => (j \in DOMAIN jobs' /\ jobs'[j] = jobs[j])]_vars

\* The step is the UPDATE of a retry_dlq_job call on id.
RetryWriteStep(id) == id \in retrying /\ id \notin retrying'

\* C14: dlq_retry applied to a job in state dead returns True and leaves the
\* job with state pending, attempts 0, error_message, next_retry_at,
\* locked_by and locked_at null.
C14_RetryResetsDeadJob ==
    [][\A id \in Ids :
          (RetryWriteStep(id) /\ jobs[id].state = "dead") =>
              /\ ret' = [call |-> "retry_dlq_job", value |-> TRUE]
              /\ id \in DOMAIN jobs'
              /\ jobs'[id].state = "pending"
              /\ jobs'[id].attempts = 0
              /\ jobs'[id].error_message = NoText
              /\ jobs'[id].next_retry_at = NULL
              /\ jobs'[id].locked_by = NULL
              /\ jobs'[id].locked_at = NULL]_vars

\* C14 witness: dlq_retry has returned True and left a job pending with no
\* attempts and no error, which still carries the execution_time of the run
\* that failed.
C14_Witness ==
    /\ ret = [call |-> "retry_dlq_job", value |-> TRUE]
    /\ \E j \in Ids :
          /\ jobs[j].state = "pending"
          /\ jobs[j].attempts = 0
          /\ jobs[j].error_message = NoText
          /\ jobs[j].execution_time # NULL

\* The job id is in state dead.
IsDead(id) == IF id \in Ids THEN jobs[id].state = "dead" ELSE FALSE

\* C15: dlq_retry never changes a job that is not in state dead when its
\* UPDATE is applied, and a call on a missing or non-dead job returns False,
\* whatever happens between its SELECT and its UPDATE.
C15_RetryOnlyTouchesDead ==
    [][\A id \in JobIds :
          (RetryWriteStep(id) /\ ~IsDead(id)) =>
              /\ jobs' = jobs
              /\ ret' = [call |-> "retry_dlq_job", value |-> FALSE]]_vars

\* The fields of row r that scheduling reads and that carry the result.
Outcome(r) ==
    [state |-> r.state, attempts |-> r.attempts,
     waiting_time |-> r.waiting_time, error_message |-> r.error_message,
     output |-> r.output, locked_by |-> r.locked_by, locked_at |-> r.locked_at,
     next_retry_at |-> r.next_retry_at, max_retries |-> r.max_retries,
     backoff_base |-> r.backoff_base, priority |-> r.priority]

\* C16: after dlq_retry of a dead job, the row equals in these fields the row
\* a fresh enqueue with the same parameters inserts: state pending, attempts
\* 0, waiting_time 0, no error, no output, no lock, no next_retry_at.
C16_RetriedEqualsFresh ==
    [][\A id \in Ids :
          (RetryWriteStep(id) /\ jobs[id].state = "dead") =>
              /\ id \in DOMAIN jobs'
              /\ Outcome(jobs'[id])
                    = Outcome(NewJob(jobs[id].max_retries, jobs[id].backoff_base,
                                     jobs[id].priority, jobs[id].created_at))]_vars

\* The step is the SELECT or the UPDATE of a retry_dlq_job call on id.
RetryStep(id) == (id \in retrying) # (id \in retrying')

\* C17: dlq_retry leaves every other job unchanged; it does not add to the
\* waiting_time of any pending or failed job.
C17_RetryLeavesOthers ==
    [][\A id \in JobIds :
          RetryStep(id) =>
              \A j \in Ids \ {id} : j \in DOMAIN jobs' /\ jobs'[j] = jobs[j]]_vars

\* C17 witness: a job was retried from the DLQ while another job was waiting,
\* and that job's waiting_time is still 0.
C17_Witness ==
    /\ ret = [call |-> "retry_dlq_job", value |-> TRUE]
    /\ \E j, k \in Ids :
          /\ j # k
          /\ jobs[j].state = "pending"
          /\ jobs[j].execution_time # NULL
          /\ jobs[j].created_at >= jobs[k].created_at
          /\ jobs[j].waiting_time = 0
          /\ Waiting(jobs[k])
          /\ jobs[k].waiting_time = 1
          /\ jobs[k].execution_time = NULL

\* C18: a successful enqueue of a new id returns True and creates exactly one
\* job, with state pending, attempts 0, waiting_time 0, locked_by and
\* next_retry_at null; of the jobs that existed it changes nothing but the
\* waiting_time of the waiting ones, which grows by 1.
C18_EnqueueCreatesOnePendingJob ==
    [][/\ (BeginStep /\ tx'.id \notin Ids) => jobs' = jobs
       /\ (CommitStep /\ tx.id \notin Ids) =>
             /\ ret' = [call |-> "enqueue_job", value |-> TRUE]
             /\ DOMAIN jobs' = Ids \cup {tx.id}
             /\ jobs'[tx.id].state = "pending"
             /\ jobs'[tx.id].attempts = 0
             /\ jobs'[tx.id].waiting_time = 0
             /\ jobs'[tx.id].locked_by = NULL
             /\ jobs'[tx.id].next_retry_at = NULL
             /\ \A j \in Ids :
                   jobs'[j] = IF Waiting(jobs[j])
                                THEN [jobs[j] EXCEPT !.waiting_time = @ + 1]
                                ELSE jobs[j]]_vars

\* C18 witness: an enqueue has returned True and its job is pending with
\* waiting_time 0 next to a job that was in processing when it came.
C18_Witness ==
    /\ ret = [call |-> "enqueue_job", value |-> TRUE]
    /\ \E j, k \in Ids :
          /\ jobs[j].state = "pending"
          /\ jobs[j].attempts = 0
          /\ jobs[j].waiting_time = 0
          /\ jobs[j].execution_time = NULL
          /\ jobs[k].state = "processing"
          /\ jobs[k].waiting_time = 0

\* The step is worker w's complete_job UPDATE on a row that exists: the
\* command it ran exited with code 0.
CompleteStep(w) ==
    wpc[w] = "executing" /\ wpc'[w] = "idle" /\ wjob[w] \in Ids

\* C19: when a job that has not been attempted before is run once and its
\* command exits with code 0, the job is completed with attempts = 1.
C19_SuccessCountsAsAttempt ==
    [][\A w \in Workers :
          (CompleteStep(w) /\ jobs[wjob[w]].attempts = 0) =>
              /\ jobs'[wjob[w]].state = "completed"
              /\ jobs'[wjob[w]].attempts = 1]_vars

\* C20: when a producer omits max_retries (backoff_base), through the store
\* or through the command line, the stored job gets the value of the config
\* key max-retries (backoff-base) if the key is set, and 3 (2) otherwise.
C20_OmittedTakesConfigDefault ==
    [][(CommitStep /\ tx.id \notin Ids) =>
          /\ tx.given_max_retries = Omitted =>
                jobs'[tx.id].max_retries =
                    IF config.max_retries # NULL THEN config.max_retries ELSE 3
          /\ tx.given_backoff_base = Omitted =>
                jobs'[tx.id].backoff_base =
                    IF config.backoff_base # NULL THEN config.backoff_base ELSE 2]_vars

\* C21: complete is idempotent: on every row the store can hold, applying
\* complete_job's UPDATE twice with the same output and execution_time leaves
\* the same state, output, execution_time and lock fields as applying it once.
C21_CompleteIdempotent ==
    \A j \in Ids :
        LET once == CompleteRow(jobs[j], "out", Elapsed)
            twice == CompleteRow(once, "out", Elapsed)
        IN  /\ twice.state = once.state
            /\ twice.output = once.output
            /\ twice.execution_time = once.execution_time
            /\ twice.locked_by = once.locked_by
            /\ twice.locked_at = once.locked_at

\* C21 witness: a job that complete_job has written (completed, output and
\* execution_time stored, lock cleared) is in the store after it had failed
\* before, so a further complete_job finds every field set.
C21_Witness ==
    \E j \in Ids :
        /\ jobs[j] = CompleteRow(jobs[j], "out", Elapsed)
        /\ jobs[j].attempts > 0

C23_EveryJobFinishes ==
    \A j \in JobIds :
        (j \in Ids) ~> (j \in Ids /\ jobs[j].state \in {"completed", "dead"})

\* C23 witness: a job that failed and waited for its retry has finished.
C23_Witness ==
    \E j \in Ids :
        /\ jobs[j].state \in {"completed", "dead"}
        /\ jobs[j].attempts > 1
        /\ now > MaxTime

\* C27: a job in state failed has a non-null next_retry_at.
C27_FailedHasRetryTime ==
    \A j \in Ids : jobs[j].state = "failed" => jobs[j].next_retry_at # NULL

\* C27 witness: fail_job has left a job failed, with the instant of its retry.
C27_Witness ==
    \E j \in Ids :
        /\ jobs[j].state = "failed"
        /\ jobs[j].attempts > 0
        /\ jobs[j].next_retry_at >= now

\* C28: a job in a state other than failed has a null next_retry_at, also
\* when it was acquired again after a failure or completed on a retry.
C28_RetryTimeOnlyWhenFailed ==
    \A j \in Ids : jobs[j].state # "failed" => jobs[j].next_retry_at = NULL

\* C26: a job with max_retries = R whose every execution fails is executed
\* R + 1 times before it is dead: a dead job, whose attempts count its failed
\* executions, has attempts = max_retries + 1.
C26_ExecutedRetriesPlusOne ==
    \A j \in Ids :
        jobs[j].state = "dead" => jobs[j].attempts = jobs[j].max_retries + 1

\* The jobs worker w holds: processing, with its lock.
Held(w) ==
    {j \in Ids : jobs[j].state = "processing" /\ jobs[j].locked_by = w}

\* Worker w has been signalled and is executing a job or reporting on it.
Interrupted(w) == ~running[w] /\ wpc[w] \in {"executing", "failing"}

\* C24: a worker signalled while it executes a job does not abort it: its
\* next steps are the report through complete_job or fail_job, which leaves
\* no job processing under its lock; back at the top of its loop it acquires
\* nothing more, and it eventually leaves the loop, holding nothing.
C24_SignalFinishesJob ==
    /\ [][\A w \in Workers :
            /\ Interrupted(w) /\ wpc'[w] # wpc[w] =>
                  \/ wpc'[w] = "failing"
                  \/ wpc'[w] = "idle" /\ Held(w)' = {}
            /\ ~running[w] /\ wpc[w] = "idle" =>
                  wpc'[w] \in {"idle", "stopped"}]_vars
    /\ [](\A w \in Workers : wpc[w] = "stopped" => Held(w) = {})
    /\ \A w \in Workers : Interrupted(w) ~> (wpc[w] = "stopped")

\* C24 witness: a worker whose flag a signal has cleared is reporting the
\* failure of the job it still holds.
C24_Witness ==
    \E w \in Workers :
        /\ ~running[w]
        /\ wpc[w] = "failing"
        /\ wjob[w] \in Held(w)

\* C25: worker stop lets the workers finish their current job: when
\* stop_workers stops a worker that is executing a job or reporting on it, no
\* job is left processing under that worker's lock.
C25_StopLeavesNoHeldJob ==
    [][\A w \in Workers :
          wpc[w] \in {"executing", "failing"} /\ wpc'[w] = "killed" =>
              Held(w)' = {}]_vars

\* Job j is held by a worker that was killed.
Orphan(j) ==
    /\ j \in Ids
    /\ jobs[j].state = "processing"
    /\ \E w \in Workers : jobs[j].locked_by = w /\ wpc[w] = "killed"

\* C29: a job whose worker was killed while holding it stays processing with
\* that worker's lock: no step changes its row, and only delete_job or
\* clear_all_jobs removes it.
C29_OrphanStaysLocked ==
    [][\A j \in JobIds :
          Orphan(j) => IF j \in Ids' THEN jobs'[j] = jobs[j] ELSE TRUE]_vars

\* C30: a worker reports one outcome per execution, complete_job if and only
\* if the command exited 0: when a worker whose command exited 0 is back at
\* the top of its loop, the job is completed and no failed attempt has been
\* counted for it, also when complete_job raised.
C30_ExitZeroNeverFailed ==
    [][\A w \in Workers :
          returncode[w] = 0 /\ wjob[w] \in Ids /\ wpc'[w] = "idle" =>
              /\ jobs'[wjob[w]].state = "completed"
              /\ jobs'[wjob[w]].attempts = jobs[wjob[w]].attempts]_vars

\* The step is one of the statements of worker w's acquire_job call.
AcquireStep(w) ==
    wpc[w] \in {"idle", "selected", "locked"} /\ wpc'[w] # wpc[w]

\* C35: an acquire that takes a job changes that row alone, and of it only
\* state, locked_by and locked_at: attempts, priority, waiting_time,
\* max_retries, backoff_base and every other row stay as they were; the
\* statements of an acquire that takes nothing change no row.
C35_AcquireFrame ==
    [][\A w \in Workers :
          /\ LockTaken(w) =>
                /\ DOMAIN jobs' = Ids
                /\ \A j \in Ids \ {wjob[w]} : jobs'[j] = jobs[j]
                /\ jobs'[wjob[w]] =
                      [jobs[wjob[w]] EXCEPT !.state = "processing",
                                            !.locked_by = w,
                                            !.locked_at = Stamp]
          /\ AcquireStep(w) /\ ~LockTaken(w) => jobs' = jobs]_vars

\* C35 witness: a worker has taken a job that had failed once and been aged,
\* while another job waits.
C35_Witness ==
    \E w \in Workers : \E j, k \in Ids :
        /\ j # k
        /\ wpc[w] = "locked" /\ wjob[w] = j
        /\ jobs[j].locked_by = w
        /\ jobs[j].attempts > 0 /\ jobs[j].waiting_time > 0
        /\ jobs[k].state = "pending"

\* C33: complete_job and fail_job issued by a worker change a job only if it
\* is in processing under that worker's lock: a stale call, on a row that is
\* pending, failed or locked by another worker, leaves every row unchanged.
C33_StaleReportChangesNothing ==
    [][\A w \in Workers :
          (/\ ReportStep(w)
           /\ wjob[w] \in Ids
           /\ ~(jobs[wjob[w]].state = "processing"
                 /\ jobs[wjob[w]].locked_by = w))
              => jobs' = jobs]_vars

\* The step is worker w's locking UPDATE matching no row: acquire_job
\* returns None.
LockLost(w) == wpc[w] = "selected" /\ wpc'[w] = "idle"

\* Job k is pending and unlocked and has been so since before worker w's
\* SELECT: with two ids that are never removed, its waiting_time shows that
\* the job w selected was enqueued after it.
EligibleThroughout(k, w) ==
    /\ k # wjob[w]
    /\ jobs[k].state = "pending" /\ jobs[k].locked_by = NULL
    /\ jobs[k].waiting_time > 0

\* C34 as stated: acquire_job returns None only when no job is eligible:
\* a call during which some job is eligible throughout returns a job, also
\* when another worker takes the first-ranked candidate meanwhile.
C34_NoneOnlyWhenNothingEligible ==
    [][\A w \in Workers :
          LockLost(w) => ~\E k \in Ids : EligibleThroughout(k, w)]_vars

\* C34 amended: an acquire_job call that selected a candidate returns None
\* only when that candidate is under another worker's lock, or gone, at its
\* UPDATE; it then returns None whatever else is eligible.
C34_NoneOnlyWhenCandidateTaken ==
    [][\A w \in Workers :
          AcquireStep(w) /\ wpc[w] # "idle" /\ wpc'[w] = "idle" =>
              IF wjob[w] \in Ids
                THEN jobs[wjob[w]].locked_by \notin {NULL, w}
                ELSE TRUE]_vars

\* C34 witness: a worker is about to run its UPDATE on a candidate another
\* worker has locked since, while an older job is pending and unlocked.
C34_Witness ==
    \E w, v \in Workers : \E k \in Ids :
        /\ w # v
        /\ wpc[w] = "selected" /\ wjob[w] \in Ids
        /\ jobs[wjob[w]].locked_by = v
        /\ EligibleThroughout(k, w)

\* C31: every job enqueue has stored has backoff_base >= 2, so the delay
\* fail_job computes for its next failure is longer than the one computed
\* for the failure before.
C31_StoredBaseAtLeastTwo ==
    \A j \in Ids :
        /\ jobs[j].backoff_base >= 2
        /\ jobs[j].state = "failed" =>
              Delay(jobs[j].backoff_base, jobs[j].attempts + 1)
                  > Delay(jobs[j].backoff_base, jobs[j].attempts)

\* C32: no two tracked workers that are alive at the same time have the same
\* worker_id, after any sequence of start_workers calls and worker deaths.
C32_LiveWorkerIdsUnique ==
    \A i, k \in DOMAIN registry :
        (i # k /\ registry[i].alive /\ registry[k].alive)
            => registry[i].worker_id # registry[k].worker_id

====
